---- MODULE Spec2Model ----
(***************************************************************************)
(* A model of CalcAtten, a gamma-ray attenuation calculator                *)
(* (src/CalcAtten.cc, src/CalcAtten.hh).                                   *)
(*                                                                         *)
(* Text.  A line of text is a sequence of atoms.  An atom is either the    *)
(* space character, the comma character, a numeral (a chunk that stof      *)
(* converts, carrying its value) or a word (any other chunk without space  *)
(* or comma).  string::find and string::substr work on positions of this   *)
(* sequence, 0-based as in the source.                                     *)
(*                                                                         *)
(* Numbers.  A double v is represented by the integer v * Scale            *)
(* (fixed point, three decimals); the rounding of stof to float and of     *)
(* double arithmetic below that resolution is not modelled.                *)
(*                                                                         *)
(* Intensities.  The values exp() returns and their products are kept by   *)
(* their negated natural logarithm: [zero |-> FALSE, nl |-> x] stands for  *)
(* e^(-x/Scale), and [zero |-> TRUE, ...] for the double 0.0 that exp and  *)
(* the product underflow to.  Multiplication adds the logarithms.          *)
(*                                                                         *)
(* Undefined behaviour.  Closest dereferences iterators that can point     *)
(* before the first or past the last element, and MassAttenCoeff indexes   *)
(* its vectors with what Closest returns.  Such a read either faults       *)
(* (the process is killed) or yields an arbitrary double, drawn here from  *)
(* the set Garbage.                                                        *)
(***************************************************************************)
EXTENDS Integers, Sequences, FiniteSets, TLC

\* Resolution of the fixed-point representation of doubles.
Scale == 10 * 10 * 10

\* Bounds of the model.
MaxScript == 3      \* longest command script
MaxLen == 3         \* longest energy table given to Closest on its own
MaxEnergy == 4      \* largest tabulated energy (MeV) given to Closest on its own

\* string::npos; npos + 1 wraps to 0, which -1 + 1 reproduces.
NPOS == -1

\* E/1000. converts keV to MeV.
KeVPerMeV == 1000

\* exp(-x) is the double 0.0 for x > 1075 ln 2 = 745.133.
ExpUnderflow == 745133

\* I_init = 1.0
I_init == [zero |-> FALSE, nl |-> 0]
Zero == [zero |-> TRUE, nl |-> 0]

\* What a read through a dangling iterator or index may yield.
Garbage == {0 - Scale, 0}

----------------------------------------------------------------------------
(* Text *)

Atom(k, s, v) == [k |-> k, s |-> s, v |-> v]
SP == Atom("sp", " ", 0)
CM == Atom("cm", ",", 0)
W(s) == Atom("w", s, 0)
Num(v) == Atom("n", "", v)

\* string::find(ch, pos): position of the first ch at or after pos, else npos
Find(str, ch, pos) ==
  LET hits == {i \in pos..(Len(str) - 1) : str[i + 1] = ch}
  IN IF hits = {} THEN NPOS ELSE CHOOSE i \in hits : \A j \in hits : i <= j

\* string::substr(pos, count): [pos, pos+count), cut at the end of the string
Substr(str, pos, count) ==
  LET end == IF count = NPOS \/ pos + count > Len(str) THEN Len(str) ELSE pos + count
  IN SubSeq(str, pos + 1, end)

\* stof: skips leading whitespace, converts the numeral that follows, ignores
\* what comes after it; throws (ok = FALSE) when no numeral follows.
Stof(str) ==
  LET body == {i \in 1..Len(str) : str[i] # SP}
  IN IF body = {} THEN [ok |-> FALSE, v |-> 0]
     ELSE LET i == CHOOSE i \in body : \A j \in body : i <= j
          IN IF str[i].k = "n" THEN [ok |-> TRUE, v |-> str[i].v]
                               ELSE [ok |-> FALSE, v |-> 0]

----------------------------------------------------------------------------
(* Doubles *)

Abs(x) == IF x < 0 THEN 0 - x ELSE x

\* product of two fixed-point numbers
FMul(a, b) == (a * b) \div Scale

\* exp(y)
Exp(y) == IF 0 - y > ExpUnderflow THEN Zero ELSE [zero |-> FALSE, nl |-> 0 - y]

\* I * T
Mul(a, b) ==
  IF a.zero \/ b.zero THEN Zero
  ELSE IF a.nl + b.nl > ExpUnderflow THEN Zero
  ELSE [zero |-> FALSE, nl |-> a.nl + b.nl]

----------------------------------------------------------------------------
(* Closest (nearest-energy lookup) *)

\* std::lower_bound on [first, first+len): first position whose element does
\* not compare less than val (positions 0-based; vec[p + 1] is element p)
RECURSIVE LowerBoundFrom(_, _, _, _)
LowerBoundFrom(vec, val, first, len) ==
  IF len <= 0 THEN first
  ELSE LET half == len \div 2
           middle == first + half
       IN IF vec[middle + 1] < val
          THEN LowerBoundFrom(vec, val, middle + 1, len - half - 1)
          ELSE LowerBoundFrom(vec, val, first, half)

\* std::upper_bound: first position whose element compares greater than val
RECURSIVE UpperBoundFrom(_, _, _, _)
UpperBoundFrom(vec, val, first, len) ==
  IF len <= 0 THEN first
  ELSE LET half == len \div 2
           middle == first + half
       IN IF val < vec[middle + 1]
          THEN UpperBoundFrom(vec, val, first, half)
          ELSE UpperBoundFrom(vec, val, middle + 1, len - half - 1)

\* lb of Closest: lower_bound(...) - 1, as a position
LbPos(vec, val) == LowerBoundFrom(vec, val, 0, Len(vec)) - 1

\* ub of Closest: upper_bound(...), as a position
UbPos(vec, val) == UpperBoundFrom(vec, val, 0, Len(vec))

InBounds(vec, p) == p >= 0 /\ p < Len(vec)

\* *it and vec[i] without bounds check: the element, or garbage
Deref(vec, p) == IF InBounds(vec, p) THEN {vec[p + 1]} ELSE Garbage

\* The returns of Closest(vec, val): one per pair of values the two
\* dereferences can yield.
ClosestReturns(vec, val) ==
  LET lb == LbPos(vec, val)
      ub == UbPos(vec, val)
  IN { [lb |-> lb, ub |-> ub, lbv |-> a, ubv |-> b,
        i |-> IF Abs(b - val) > Abs(a - val) THEN lb ELSE ub]
       : a \in Deref(vec, lb), b \in Deref(vec, ub) }

\* Closest can fault when one of its dereferences is out of bounds.
ClosestFaults(vec, val) ==
  ~InBounds(vec, LbPos(vec, val)) \/ ~InBounds(vec, UbPos(vec, val))

----------------------------------------------------------------------------
(* Data files *)

DensityLabel == <<W("Density(g/cm^3):")>>
MacLabel == <<W("MAC(MeV,cm^2/g,cm^2/g):")>>

DensityLine(rho) == DensityLabel \o <<SP, Num(rho)>>
MacLine(e, c, a) == MacLabel \o <<SP, Num(e), SP, Num(c), SP, Num(a)>>

\* "Data/" + absorber + "Data.txt"
DataFilePath(absorber) == <<W("Data/")>> \o absorber \o <<W("Data.txt")>>

\* The data directory of the runs: Lead is a complete table; Air has no
\* density record; Iron has a line without a space after its density record
\* and Tin an empty line before it; Vac has a density record and no MAC
\* record; no other file exists.
Files ==
  { [path |-> DataFilePath(<<W("Lead")>>),
     lines |-> << <<W("Material:"), SP, W("Lead")>>,
                  DensityLine(11 * Scale),
                  MacLine(1 * Scale, 30 * Scale, 20 * Scale),
                  MacLine(2 * Scale, 70 * Scale, 15 * Scale),
                  MacLine(4 * Scale, 10 * Scale, 5 * Scale) >>],
    [path |-> DataFilePath(<<W("Air")>>),
     lines |-> << MacLine(1 * Scale, 2 * Scale, 1 * Scale),
                  MacLine(2 * Scale, 1 * Scale, 1 * Scale) >>],
    [path |-> DataFilePath(<<W("Iron")>>),
     lines |-> << DensityLine(7 * Scale),
                  <<W("#NIST")>>,
                  MacLine(1 * Scale, 3 * Scale, 2 * Scale) >>],
    [path |-> DataFilePath(<<W("Tin")>>),
     lines |-> << <<>>,
                  DensityLine(7 * Scale),
                  MacLine(1 * Scale, 3 * Scale, 2 * Scale) >>],
    [path |-> DataFilePath(<<W("Vac")>>),
     lines |-> << DensityLine(1 * Scale) >>] }

\* ifstream::is_open after open(path)
IsOpen(path) == \E f \in Files : f.path = path

\* the lines getline yields from the file
FileLines(path) == (CHOOSE f \in Files : f.path = path).lines

\* The result of a lookup: st is "ok" (returned), "exit" (exit(EXIT_FAILURE),
\* after printing msg) or "throw" (stof threw, nothing catches it).
Failed(st, msg) == [st |-> st, msg |-> msg, v |-> 0, Es |-> <<>>, MACs |-> <<>>]

\* the getline loop of Density, from line i on
RECURSIVE DensityScan(_, _)
DensityScan(lines, i) ==
  IF i > Len(lines) THEN Failed("exit", "Error: No density found in data file")
  ELSE LET line == lines[i]
           n == Find(line, SP, 0)
       IN IF n = NPOS THEN Failed("exit", "Error: Unexpected data file format")
          ELSE LET lineType == Substr(line, 0, n)
                   lineArg == Substr(line, n + 1, NPOS)
               IN IF lineType = DensityLabel
                  THEN IF Stof(lineArg).ok
                       THEN [Failed("ok", "") EXCEPT !.v = Stof(lineArg).v]
                       ELSE Failed("throw", "")
                  ELSE DensityScan(lines, i + 1)

\* Density that falls back to 1.0 g/cm^3 where the source exits
DensityDefaulted(absorber) ==
  LET d == IF IsOpen(DataFilePath(absorber))
           THEN DensityScan(FileLines(DataFilePath(absorber)), 1)
           ELSE Failed("exit", "Error: File not open")
  IN IF d.st = "exit" THEN [Failed("ok", "") EXCEPT !.v = Scale] ELSE d

Density(absorber) ==
  IF IsOpen(DataFilePath(absorber))
  THEN DensityScan(FileLines(DataFilePath(absorber)), 1)
  ELSE Failed("exit", "Error: File not open")

\* the getline loop of MassAttenCoeff, from line i on, with the vectors
\* filled so far
RECURSIVE MacScan(_, _, _, _)
MacScan(lines, i, Es, MACs) ==
  IF i > Len(lines) THEN [Failed("ok", "") EXCEPT !.Es = Es, !.MACs = MACs]
  ELSE LET line == lines[i]
           n == Find(line, SP, 0)
       IN IF n = NPOS THEN Failed("exit", "Error: Unexpected data file format")
          ELSE LET lineType == Substr(line, 0, n)
                   lineArg == Substr(line, n + 1, NPOS)
               IN IF lineType = MacLabel
                  THEN LET m == Find(lineArg, SP, 0)
                           lineArg0 == Substr(lineArg, 0, m)
                           lineArg1 == Substr(lineArg, m + 1, Find(lineArg, SP, m + 1))
                       IN IF Stof(lineArg0).ok /\ Stof(lineArg1).ok
                          THEN MacScan(lines, i + 1, Append(Es, Stof(lineArg0).v),
                                       Append(MACs, Stof(lineArg1).v))
                          ELSE Failed("throw", "")
                  ELSE MacScan(lines, i + 1, Es, MACs)

\* the vectors Es and MACs of MassAttenCoeff when it reaches Closest
MacTable(absorber) ==
  IF IsOpen(DataFilePath(absorber))
  THEN MacScan(FileLines(DataFilePath(absorber)), 1, <<>>, <<>>)
  ELSE Failed("exit", "Error: File not open")

----------------------------------------------------------------------------
(* MassAttenCoeff and Transmit *)

\* a line on cout
Msg(k, v) == [k |-> k, v |-> v]

\* An outcome of a call: st is "ok", "exit", "throw" or "fault" (killed by an
\* out-of-bounds read); msgs is what it printed; v is the value returned;
\* call is the Closest call it made, if any (table length, query, the two
\* positions dereferenced); ret is what Closest returned, if it returned.
Outcome(st, msgs, v, call, ret) ==
  [st |-> st, msgs |-> msgs, v |-> v, call |-> call, ret |-> ret]

ClosestCall(vec, val) ==
  << [len |-> Len(vec), val |-> val, lb |-> LbPos(vec, val), ub |-> UbPos(vec, val)] >>

\* What cout shows of the element at position p: <<element>>, or <<>> for the
\* text of an out-of-bounds read, which is not modelled.
Printed(vec, p) == IF InBounds(vec, p) THEN <<vec[p + 1]>> ELSE <<>>

\* MassAttenCoeff once Closest returned r: the reads Es[i] and MACs[i] and
\* the return of MACs[i]
AfterClosest(absorber, E, Es, MACs, val, r) ==
  LET call == ClosestCall(Es, val)
      closestMsg == Msg("closest", <<val, Printed(Es, r.lb), Printed(Es, r.ub)>>)
  IN { Outcome("ok", <<closestMsg, Msg("used", <<absorber, E, Printed(Es, r.i), Printed(MACs, r.i)>>)>>,
               c, call, <<r.i>>)
       : c \in Deref(MACs, r.i) }
     \cup
     (IF InBounds(Es, r.i) THEN {}
      ELSE {Outcome("fault", <<closestMsg>>, 0, call, <<r.i>>)})

MassAttenCoeff(absorber, E) ==
  LET tab == MacTable(absorber)
      val == E \div KeVPerMeV
  IN IF tab.st = "exit" THEN {Outcome("exit", <<Msg("error", <<tab.msg>>)>>, 0, <<>>, <<>>)}
     ELSE IF tab.st = "throw" THEN {Outcome("throw", <<>>, 0, <<>>, <<>>)}
     ELSE UNION { AfterClosest(absorber, E, tab.Es, tab.MACs, val, r)
                  : r \in ClosestReturns(tab.Es, val) }
          \cup
          (IF ClosestFaults(tab.Es, val)
           THEN {Outcome("fault", <<>>, 0, ClosestCall(tab.Es, val), <<>>)} ELSE {})

\* exp(-1 * c * rho * t)
Attenuation(c, rho, t) == Exp(FMul(FMul(FMul(0 - Scale, c), rho), t))

\* An outcome of Transmit carries, besides the fields of Outcome, the
\* thickness, density and coefficient it used.
Transmit(absorber, thickness, E) ==
  LET t == Stof(thickness)
      rho == Density(absorber)
      none == [t |-> 0, rho |-> 0, c |-> 0]
  IN IF ~t.ok THEN {[o |-> Outcome("throw", <<>>, Zero, <<>>, <<>>), in |-> none]}
     ELSE IF rho.st = "exit"
          THEN {[o |-> Outcome("exit", <<Msg("error", <<rho.msg>>)>>, Zero, <<>>, <<>>), in |-> none]}
     ELSE IF rho.st = "throw"
          THEN {[o |-> Outcome("throw", <<>>, Zero, <<>>, <<>>), in |-> none]}
     ELSE { [o |-> [m EXCEPT !.v = IF m.st = "ok" THEN Attenuation(m.v, rho.v, t.v) ELSE Zero],
             in |-> [t |-> t.v, rho |-> rho.v, c |-> m.v]]
            : m \in MassAttenCoeff(absorber, E) }

----------------------------------------------------------------------------
(* main: the command script *)

GammaLabel == <<W("Gamma(keV):")>>
ShieldLabel == <<W("Shield(type,cm):")>>

GammaLine(e) == GammaLabel \o <<SP, Num(e)>>
ShieldLine(material, t) == ShieldLabel \o <<SP, W(material), CM, Num(t)>>

\* The lines a script is made of: two energies inside the Lead table, nearest
\* to its first entry (1200 keV) and to its second (2200 keV), the energy
\* before any Gamma command (0 keV) lying below the table; layers of every
\* material of the data directory and of one that has no file; a
\* command that is not recognized; lines without a space; arguments that
\* are not numbers.
Lines ==
  { GammaLine(1200 * Scale), GammaLine(2200 * Scale),
    GammaLabel \o <<SP, W("high")>>,
    ShieldLine("Lead", 1 * Scale), ShieldLine("Lead", 2 * Scale),
    ShieldLine("Air", 1 * Scale), ShieldLine("Iron", 1 * Scale),
    ShieldLine("Tin", 1 * Scale), ShieldLine("Vac", 1 * Scale),
    ShieldLine("Gold", 1 * Scale),
    ShieldLabel \o <<SP, W("Lead"), CM, W("thick")>>,
    <<W("Note:"), SP, W("outer"), SP, W("wall")>>,
    <<W("Gamma(keV):662")>>,
    <<>> }

Scripts == UNION { [1..n -> Lines] : n \in 0..MaxScript }

VARIABLES
  argc,         \* main's argc
  macroOpens,   \* whether argv[1] names a file that ifs.open can open
  script,       \* the lines of that file
  pc,           \* "start", "loop" (at getline), "done" (process ended)
  pos,          \* number of lines the loop has finished with
  I,            \* I
  E,            \* E (keV)
  out,          \* cout
  status,       \* how the process ended: "running", "success" (0),
                \* "failure" (EXIT_FAILURE), "abort" (uncaught exception),
                \* "fault" (killed by an out-of-bounds read)
  layers,       \* history: one record per Shield command that completed
  calls,        \* history: the calls of Closest made by the run
  vec, val,     \* Closest on its own: its arguments
  cpc,          \* Closest on its own: "call", "returned" or "fault"
  cret          \* Closest on its own: the return r of ClosestReturns

vars == <<argc, macroOpens, script, pc, pos, I, E, out, status, layers, calls,
          vec, val, cpc, cret>>

runVars == <<argc, macroOpens, script, pc, pos, I, E, out, status, layers, calls>>
closestVars == <<vec, val, cpc, cret>>

NoReturn == [lb |-> 0, ub |-> 0, lbv |-> 0, ubv |-> 0, i |-> 0]

Init ==
  /\ argc \in {1, 2}
  /\ macroOpens \in BOOLEAN
  /\ script \in Scripts
  /\ (argc < 2 \/ ~macroOpens) => script = <<>>
  /\ argc < 2 => ~macroOpens
  /\ pc = "start"
  /\ pos = 0
  /\ I = I_init
  /\ E = 0
  /\ out = <<>>
  /\ status = "running"
  /\ layers = <<>>
  /\ calls = <<>>
  /\ vec = <<>> /\ val = 0 /\ cpc = "idle" /\ cret = NoReturn

\* the line getline has just read
Line == script[pos + 1]
AtLine == pc = "loop" /\ pos < Len(script)
CmdType(line) == Substr(line, 0, Find(line, SP, 0))
CmdArg(line) == Substr(line, Find(line, SP, 0) + 1, NPOS)
HasSpace(line) == Find(line, SP, 0) # NPOS

\* cmdArg0 and cmdArg1 of a Shield command
CmdArg0(cmdArg) == Substr(cmdArg, 0, Find(cmdArg, CM, 0))
CmdArg1(cmdArg) == Substr(cmdArg, Find(cmdArg, CM, 0) + 1, NPOS)

\* the process ends with status st after printing msgs
Terminate(st, msgs) ==
  /\ pc' = "done"
  /\ status' = st
  /\ out' = out \o msgs

\* argc < 2: usage message, exit(EXIT_FAILURE)
Usage ==
  /\ pc = "start" /\ argc < 2
  /\ Terminate("failure", <<Msg("usage", <<>>)>>)
  /\ UNCHANGED <<argc, macroOpens, script, pos, I, E, layers, calls, closestVars>>

\* ifs.is_open() is false: the block is skipped, return 0
MacroNotOpen ==
  /\ pc = "start" /\ argc >= 2 /\ ~macroOpens
  /\ Terminate("success", <<>>)
  /\ UNCHANGED <<argc, macroOpens, script, pos, I, E, layers, calls, closestVars>>

MacroOpen ==
  /\ pc = "start" /\ argc >= 2 /\ macroOpens
  /\ pc' = "loop"
  /\ UNCHANGED <<argc, macroOpens, script, pos, I, E, out, status, layers, calls, closestVars>>

\* a line without a space, skipped like an unrecognized command
MacroFormatSkipped ==
  /\ AtLine /\ ~HasSpace(Line)
  /\ pos' = pos + 1
  /\ UNCHANGED <<argc, macroOpens, script, pc, I, E, out, status, layers, calls, closestVars>>

\* a line without a space: "Unexpected macro format", exit(EXIT_FAILURE)
MacroFormatError ==
  /\ AtLine /\ ~HasSpace(Line)
  /\ Terminate("failure", <<Msg("error", <<"Error: Unexpected macro format">>)>>)
  /\ UNCHANGED <<argc, macroOpens, script, pos, I, E, layers, calls, closestVars>>

\* Gamma(keV): command that sets the energy once and keeps it thereafter
GammaSetOnce ==
  /\ AtLine /\ HasSpace(Line) /\ CmdType(Line) = GammaLabel
  /\ Stof(CmdArg(Line)).ok
  /\ E' = IF E = 0 THEN Stof(CmdArg(Line)).v ELSE E
  /\ out' = Append(out, Msg("gamma", <<Stof(CmdArg(Line)).v>>))
  /\ pos' = pos + 1
  /\ UNCHANGED <<argc, macroOpens, script, pc, I, status, layers, calls, closestVars>>

\* Gamma(keV): command
Gamma ==
  /\ AtLine /\ HasSpace(Line) /\ CmdType(Line) = GammaLabel
  /\ Stof(CmdArg(Line)).ok
  /\ E' = Stof(CmdArg(Line)).v
  /\ out' = Append(out, Msg("gamma", <<Stof(CmdArg(Line)).v>>))
  /\ pos' = pos + 1
  /\ UNCHANGED <<argc, macroOpens, script, pc, I, status, layers, calls, closestVars>>

\* Gamma(keV): command whose argument stof rejects
GammaThrow ==
  /\ AtLine /\ HasSpace(Line) /\ CmdType(Line) = GammaLabel
  /\ ~Stof(CmdArg(Line)).ok
  /\ Terminate("abort", <<>>)
  /\ UNCHANGED <<argc, macroOpens, script, pos, I, E, layers, calls, closestVars>>

AtShield == AtLine /\ HasSpace(Line) /\ CmdType(Line) = ShieldLabel

CalcMsg == Msg("calc", <<CmdArg1(CmdArg(Line)), CmdArg0(CmdArg(Line))>>)

\* I = I * T, replaced by I = T
IntensityReplaced(i, t) == t

\* I = I * T
NextIntensity(i, t) == Mul(i, t)

\* Shield(type,cm): command for which Transmit returns
Shield ==
  /\ AtShield
  /\ \E tr \in Transmit(CmdArg0(CmdArg(Line)), CmdArg1(CmdArg(Line)), E) :
       /\ tr.o.st = "ok"
       /\ I' = NextIntensity(I, tr.o.v)
       /\ out' = out \o <<CalcMsg>> \o tr.o.msgs
                     \o <<Msg("T", <<tr.o.v>>), Msg("I", <<NextIntensity(I, tr.o.v), I_init>>)>>
       /\ layers' = Append(layers, [line |-> pos + 1, E |-> E, T |-> tr.o.v,
                                    I |-> NextIntensity(I, tr.o.v), in |-> tr.in,
                                    call |-> tr.o.call[1], i |-> tr.o.ret[1]])
       /\ calls' = calls \o tr.o.call
  /\ pos' = pos + 1
  /\ UNCHANGED <<argc, macroOpens, script, pc, E, status, closestVars>>

\* Shield(type,cm): command during which a lookup calls exit(EXIT_FAILURE)
ShieldExit ==
  /\ AtShield
  /\ \E tr \in Transmit(CmdArg0(CmdArg(Line)), CmdArg1(CmdArg(Line)), E) :
       /\ tr.o.st = "exit"
       /\ Terminate("failure", <<CalcMsg>> \o tr.o.msgs)
       /\ calls' = calls \o tr.o.call
  /\ UNCHANGED <<argc, macroOpens, script, pos, I, E, layers, closestVars>>

\* Shield(type,cm): command during which stof throws
ShieldThrow ==
  /\ AtShield
  /\ \E tr \in Transmit(CmdArg0(CmdArg(Line)), CmdArg1(CmdArg(Line)), E) :
       /\ tr.o.st = "throw"
       /\ Terminate("abort", <<CalcMsg>> \o tr.o.msgs)
       /\ calls' = calls \o tr.o.call
  /\ UNCHANGED <<argc, macroOpens, script, pos, I, E, layers, closestVars>>

\* Shield(type,cm): command during which an out-of-bounds read faults
ShieldFault ==
  /\ AtShield
  /\ \E tr \in Transmit(CmdArg0(CmdArg(Line)), CmdArg1(CmdArg(Line)), E) :
       /\ tr.o.st = "fault"
       /\ Terminate("fault", <<CalcMsg>> \o tr.o.msgs)
       /\ calls' = calls \o tr.o.call
  /\ UNCHANGED <<argc, macroOpens, script, pos, I, E, layers, closestVars>>

\* a line with a space whose label is neither command: nothing happens
Unrecognized ==
  /\ AtLine /\ HasSpace(Line)
  /\ CmdType(Line) # GammaLabel /\ CmdType(Line) # ShieldLabel
  /\ pos' = pos + 1
  /\ UNCHANGED <<argc, macroOpens, script, pc, I, E, out, status, layers, calls, closestVars>>

\* getline fails at the end of the file: ifs.close(), return 0
EndOfScript ==
  /\ pc = "loop" /\ pos = Len(script)
  /\ Terminate("success", <<>>)
  /\ UNCHANGED <<argc, macroOpens, script, pos, I, E, layers, calls, closestVars>>

Next ==
  \/ Usage \/ MacroNotOpen \/ MacroOpen
  \/ MacroFormatError \/ Gamma \/ GammaThrow
  \/ Shield \/ ShieldExit \/ ShieldThrow \/ ShieldFault
  \/ Unrecognized \/ EndOfScript

Spec == Init /\ [][Next]_vars

----------------------------------------------------------------------------
(* Closest on its own, on every small ascending table and query *)

Energies == { e * Scale : e \in 1..MaxEnergy }

\* the non-empty strictly ascending tables
Tables ==
  { t \in UNION { [1..n -> Energies] : n \in 1..MaxLen } :
      \A a \in 1..Len(t), b \in 1..Len(t) : a < b => t[a] < t[b] }

\* queries from below the smallest energy to above the largest, in half steps
Queries == { (k * Scale) \div 2 : k \in 0..(2 * MaxEnergy + 2) }

InitClosest ==
  /\ argc = 1 /\ macroOpens = FALSE /\ script = <<>>
  /\ pc = "idle" /\ pos = 0 /\ I = I_init /\ E = 0 /\ out = <<>>
  /\ status = "running" /\ layers = <<>> /\ calls = <<>>
  /\ vec \in Tables
  /\ val \in Queries
  /\ cpc = "call"
  /\ cret = NoReturn

\* Closest(vec, val) returns
ClosestReturn ==
  /\ cpc = "call"
  /\ \E r \in ClosestReturns(vec, val) : cret' = r
  /\ cpc' = "returned"
  /\ UNCHANGED <<runVars, vec, val>>

\* Closest(vec, val) is killed by an out-of-bounds dereference
ClosestFault ==
  /\ cpc = "call"
  /\ ClosestFaults(vec, val)
  /\ cret' = [NoReturn EXCEPT !.lb = LbPos(vec, val), !.ub = UbPos(vec, val)]
  /\ cpc' = "fault"
  /\ UNCHANGED <<runVars, vec, val>>

NextClosest == ClosestReturn \/ ClosestFault

SpecClosest == InitClosest /\ [][NextClosest]_vars

----------------------------------------------------------------------------
(* Claims about Closest, under SpecClosest *)

InRange == vec[1] <= val /\ val <= vec[Len(vec)]

\* C1: for a non-empty strictly ascending table and a query within its range,
\* Closest returns the position of the energy with the least absolute
\* difference to the query; a query equal to the energy at position k
\* returns k.
C1_ReturnsNearest ==
  (cpc = "returned" /\ InRange) =>
     /\ InBounds(vec, cret.i)
     /\ \A j \in 1..Len(vec) : Abs(vec[cret.i + 1] - val) <= Abs(vec[j] - val)
     /\ \A k \in 1..Len(vec) : vec[k] = val => cret.i = k - 1

\* C7: for every non-empty ascending table and every query, Closest reads
\* only positions 0..len-1 and returns a position in 0..len-1.
C7_StaysInBounds ==
  cpc # "call" =>
     /\ cpc = "returned"
     /\ InBounds(vec, cret.lb)
     /\ InBounds(vec, cret.ub)
     /\ InBounds(vec, cret.i)

\* positions whose energy strictly exceeds the query, and the others
Above == { p \in 0..(Len(vec) - 1) : vec[p + 1] > val }
NotAbove == { p \in 0..(Len(vec) - 1) : vec[p + 1] <= val }

\* C8: for a query within the range of the table, ub is the smallest position
\* whose energy strictly exceeds the query and lb = ub - 1 is the largest
\* position whose energy is <= the query; the result is the one of lb, ub
\* with the smaller absolute difference to the query, ub when they are equal.
C8_AdjacentCandidates ==
  (cpc = "returned" /\ InRange) =>
     /\ Above # {}
     /\ \A p \in Above : cret.ub <= p
     /\ cret.ub \in Above
     /\ cret.lb = cret.ub - 1
     /\ cret.lb \in NotAbove
     /\ \A p \in NotAbove : p <= cret.lb
     /\ cret.i = IF Abs(vec[cret.lb + 1] - val) < Abs(vec[cret.ub + 1] - val)
                 THEN cret.lb ELSE cret.ub

----------------------------------------------------------------------------
(* Claims about a run, under Spec *)

\* a line read off the script file, by its characters alone
NoSpace(line) == \A k \in 1..Len(line) : line[k] # SP
IsCmd(line, label) == Len(line) >= 2 /\ line[1] = label[1] /\ line[2] = SP

\* the Shield commands among the first n lines of the script
ShieldLinesUpTo(n) == { j \in 1..n : IsCmd(script[j], ShieldLabel) }

\* the Gamma commands among the first n lines of the script
GammaLinesUpTo(n) == { j \in 1..n : IsCmd(script[j], GammaLabel) }

\* the fractions reported on cout ("Transmit frac, this layer"), in order
RECURSIVE Reported(_)
Reported(o) ==
  IF o = <<>> THEN <<>>
  ELSE IF o[Len(o)].k = "T" THEN Append(Reported(SubSeq(o, 1, Len(o) - 1)), o[Len(o)].v[1])
  ELSE Reported(SubSeq(o, 1, Len(o) - 1))

\* the product 1.0 * T1 * ... * Tn, from the left
RECURSIVE Product(_)
Product(ts) ==
  IF ts = <<>> THEN I_init ELSE Mul(Product(SubSeq(ts, 1, Len(ts) - 1)), ts[Len(ts)])

\* the lookup of a layer stayed inside its table
LookupDefined(layer) ==
  /\ layer.call.lb >= 0 /\ layer.call.ub < layer.call.len
  /\ layer.i >= 0 /\ layer.i < layer.call.len

\* C2: after any prefix of the script, currentIntensity is 1.0 multiplied by
\* the transmitted fractions of exactly the Shield commands processed so far,
\* in script order; Gamma commands and unrecognized lines do not change it, a
\* script without layers ends with 1.0, and a Shield command processed twice
\* multiplies by its fraction twice (the two fractions being the same T when
\* the energy is the same and the lookup stays inside the table).
C2_IntensityIsProduct ==
  LET ts == Reported(out)
      shields == ShieldLinesUpTo(pos)
  IN /\ I = Product(ts)
     /\ Len(ts) = Cardinality(shields)
     /\ Len(layers) = Len(ts)
     /\ \A k \in 1..Len(layers) :
           /\ layers[k].T = ts[k]
           /\ layers[k].line \in shields
           /\ \A m \in 1..Len(layers) : k < m => layers[k].line < layers[m].line
     /\ shields = {} => I = I_init
     /\ \A k \in 1..(Len(layers) - 1) :
           script[layers[k].line] = script[layers[k + 1].line] =>
              /\ layers[k + 1].I =
                    Mul(Mul(Product(SubSeq(ts, 1, k - 1)), ts[k]), ts[k + 1])
              /\ ( /\ layers[k].E = layers[k + 1].E
                   /\ LookupDefined(layers[k]) /\ LookupDefined(layers[k + 1]) )
                 => ts[k + 1] = ts[k]

\* Witness of C2: a run that ended after a Gamma command and the same Shield
\* command twice, with I = T * T above zero and below 1.
C2_Witness ==
  /\ pc = "done" /\ status = "success" /\ pos = 3
  /\ IsCmd(script[1], GammaLabel)
  /\ script[2] = script[3]
  /\ Len(layers) = 2
  /\ LookupDefined(layers[1]) /\ LookupDefined(layers[2])
  /\ ~I.zero /\ layers[1].T.nl > 0 /\ I.nl = 2 * layers[1].T.nl

\* the message of main for a line without a space
MacroFormatMsg == Msg("error", <<"Error: Unexpected macro format">>)

\* C3: a script line without a space (an empty line included) ends the run
\* with failure status at that line: the line is not skipped, energy and
\* currentIntensity are not modified by it, and no later line is processed.
C3_NoSpaceLineIsFatal ==
  /\ [](\A j \in 1..Len(script) : NoSpace(script[j]) => pos < j)
  /\ [][(pc = "loop" /\ pos < Len(script) /\ NoSpace(script[pos + 1])) =>
          /\ pc' = "done" /\ status' = "failure"
          /\ out' = Append(out, MacroFormatMsg)
          /\ E' = E /\ I' = I /\ pos' = pos /\ layers' = layers]_vars

\* Witness of C3: a run that failed at a line without a space, after the
\* energy was set or a layer applied, with a further line left unread.
C3_Witness ==
  /\ pc = "done" /\ status = "failure"
  /\ pos + 1 < Len(script)
  /\ NoSpace(script[pos + 1])
  /\ out[Len(out)] = MacroFormatMsg
  /\ (E # 0 \/ I # I_init)

\* the value of the Gamma command on line j
GammaValue(j) == script[j][3].v

\* the energy in force after the first n lines: that of the last Gamma
\* command among them, 0.0 keV if there is none
EnergyAfter(n) ==
  IF GammaLinesUpTo(n) = {} THEN 0
  ELSE GammaValue(CHOOSE j \in GammaLinesUpTo(n) : \A h \in GammaLinesUpTo(n) : h <= j)

\* the energy printed for layer k ("Energy and MassAttenCoeff used for")
RECURSIVE UsedEnergies(_)
UsedEnergies(o) ==
  IF o = <<>> THEN <<>>
  ELSE IF o[Len(o)].k = "used"
       THEN Append(UsedEnergies(SubSeq(o, 1, Len(o) - 1)), o[Len(o)].v[2])
       ELSE UsedEnergies(SubSeq(o, 1, Len(o) - 1))

\* C4: every Shield command is computed with the energy of the most recent
\* Gamma command before it in the script (0.0 keV if none); a Gamma command
\* changes the energy of the layers after it only and leaves the applied
\* layers and the intensity alone; Shield commands and unrecognized lines
\* leave the energy unchanged.
C4_LayerUsesLatestEnergy ==
  /\ [](LET used == UsedEnergies(out)
         IN /\ E = EnergyAfter(pos)
            /\ Len(used) = Len(layers)
            /\ \A k \in 1..Len(layers) :
                  /\ layers[k].E = EnergyAfter(layers[k].line - 1)
                  /\ used[k] = layers[k].E)
  /\ [][/\ Len(layers') >= Len(layers)
        /\ SubSeq(layers', 1, Len(layers)) = layers
        /\ E' # E => (IsCmd(script[pos + 1], GammaLabel) /\ I' = I /\ layers' = layers)
        /\ (pos' = pos + 1 /\ ~IsCmd(script[pos + 1], GammaLabel)) => E' = E]_vars

\* Witness of C4: a layer computed at 0.0 keV before any Gamma command,
\* followed by a Gamma command and a layer computed at its energy.
C4_Witness ==
  /\ pos = 3 /\ Len(layers) = 2
  /\ IsCmd(script[2], GammaLabel)
  /\ layers[1].E = 0
  /\ layers[2].E = GammaValue(2) /\ layers[2].E # 0
  /\ layers[2].T # layers[1].T

\* the material a Shield command names, and whether its thickness is a number
ShieldMaterial(line) == <<line[3]>>
ThicknessIsNumber(line) == Len(line) >= 5 /\ line[4] = CM /\ line[5].k = "n"

\* the three lookup errors, read off the data directory
ResourceNotFound(material) ==
  \A f \in Files : f.path # DataFilePath(material)
MalformedRecord(material) ==
  \E f \in Files : f.path = DataFilePath(material)
                   /\ \E k \in 1..Len(f.lines) : NoSpace(f.lines[k])
MissingField(material) ==
  \E f \in Files : f.path = DataFilePath(material)
                   /\ \A k \in 1..Len(f.lines) : ~IsCmd(f.lines[k], DensityLabel)
LookupError(material) ==
  ResourceNotFound(material) \/ MalformedRecord(material) \/ MissingField(material)

\* a Shield command whose lookup hits one of the three errors
FailingShield(line) ==
  IsCmd(line, ShieldLabel) /\ ThicknessIsNumber(line) /\ LookupError(ShieldMaterial(line))

\* C5: a Shield command whose lookup hits ResourceNotFound, MalformedRecord or
\* MissingField ends the run at once with failure status: currentIntensity is
\* not multiplied for it, no fraction or remaining intensity is reported for
\* it, and no later line is processed.
C5_LookupErrorIsFatal ==
  /\ [](\A j \in 1..Len(script) : FailingShield(script[j]) => pos < j)
  /\ [][(pc = "loop" /\ pos < Len(script) /\ FailingShield(script[pos + 1])) =>
          /\ pc' = "done" /\ status' = "failure"
          /\ Len(out') = Len(out) + 2
          /\ SubSeq(out', 1, Len(out)) = out
          /\ out'[Len(out) + 1].k = "calc" /\ out'[Len(out) + 2].k = "error"
          /\ I' = I /\ E' = E /\ pos' = pos /\ layers' = layers]_vars

\* Witness of C5: a run that failed in the lookup of a layer, after another
\* layer was applied, with a further line left unread.
C5_Witness ==
  /\ pc = "done" /\ status = "failure"
  /\ pos + 1 < Len(script)
  /\ FailingShield(script[pos + 1])
  /\ out[Len(out)].k = "error"
  /\ Len(layers) = 1 /\ I = layers[1].T /\ I # I_init

\* the MAC records of a material's file, in file order: energy and
\* coefficient (second field)
MacRecords(material) ==
  SelectSeq(FileLines(DataFilePath(material)), LAMBDA l : IsCmd(l, MacLabel))

\* the value of the density record of a material's file
DensityRecord(material) ==
  LET ls == FileLines(DataFilePath(material))
  IN ls[CHOOSE k \in 1..Len(ls) : IsCmd(ls[k], DensityLabel)][3].v

\* a <= b for two values of exp
Leq(a, b) == a.zero \/ (~b.zero /\ a.nl >= b.nl)

\* C6: Transmit returns exp(-c * rho * t) with rho the density record, t the
\* parsed thickness and c the coefficient of the table entry that the lookup
\* for energyKeV/1000 MeV selects; for non-negative c, rho and t the result
\* lies in (0, 1] and decreases monotonically in each of c, rho and t.
C6_TransmitFormula ==
  \A k \in 1..Len(layers) :
    LET layer == layers[k]
        line == script[layer.line]
        recs == MacRecords(ShieldMaterial(line))
    IN /\ layer.call.val * KeVPerMeV = layer.E
       /\ layer.call.len = Len(recs)
       /\ layer.i >= 0 /\ layer.i < Len(recs)
       /\ layer.in.c = recs[layer.i + 1][5].v
       /\ layer.in.rho = DensityRecord(ShieldMaterial(line))
       /\ layer.in.t = line[5].v
       /\ layer.T = Exp(0 - FMul(FMul(layer.in.c, layer.in.rho), layer.in.t))
       /\ (layer.in.c >= 0 /\ layer.in.rho >= 0 /\ layer.in.t >= 0) =>
             (~layer.T.zero /\ layer.T.nl >= 0)
       /\ \A m \in 1..Len(layers) :
             ( /\ layers[m].in.c >= layer.in.c /\ layer.in.c >= 0
               /\ layers[m].in.rho >= layer.in.rho /\ layer.in.rho >= 0
               /\ layers[m].in.t >= layer.in.t /\ layer.in.t >= 0 )
             => Leq(layers[m].T, layer.T)

\* C9: a run ends with success status only if the script was opened and every
\* line of it was processed; in every other case it ends with failure status.
C9_SuccessOnlyAfterWholeScript ==
  pc = "done" =>
     /\ status = "success" => (argc >= 2 /\ macroOpens /\ pos = Len(script))
     /\ ~(argc >= 2 /\ macroOpens /\ pos = Len(script)) =>
           status \in {"failure", "abort", "fault"}

\* a material whose file opens, has a density record and no MAC record
EmptyTable(material) ==
  /\ ~LookupError(material)
  /\ MacRecords(material) = <<>>

\* C10: MassAttenCoeff calls Closest only with a non-empty table; a layer of
\* a material with a density record and no MAC record ends in a defined
\* error outcome without a lookup or a coefficient read on the empty table.
C10_NoLookupOnEmptyTable ==
  /\ \A k \in 1..Len(calls) : calls[k].len > 0
  /\ \A j \in 1..Len(script) :
        (IsCmd(script[j], ShieldLabel) /\ ThicknessIsNumber(script[j])
           /\ EmptyTable(ShieldMaterial(script[j])))
        => /\ pos < j
           /\ (pc = "done" /\ pos = j - 1) => status = "failure"

====
